---- MODULE Spec2Model ----
\* A model of examples/schema-registry.rs: SchemaRegistry (load, validate),
\* VersionedRegistry (one registry per version label) and HotReloadRegistry
\* (a registry behind Arc<RwLock<..>> that reload() and the watch thread swap).
EXTENDS Integers, Sequences, FiniteSets, TLC

VARIABLES
  dir,        \* SpecCore: the directory from_directory is given
  core,       \* SpecCore: what from_directory returned
  call,       \* the last operation called, with its arguments
  ret,        \* what the last operation returned
  vfs,        \* SpecVer: the directory found under base_path/<label>
  labels,     \* SpecVer: the versions slice given to VersionedRegistry::new
  vreg,       \* SpecVer: what VersionedRegistry::new returned
  fs,         \* Spec: the directory at HotReloadRegistry.path, and how often it changed
  registry,   \* Spec: the SchemaRegistry inside the RwLock
  lock,       \* Spec: the RwLock: the readers and the writer holding it
  rd,         \* Spec: each thread calling validate: its position and locals
  th,         \* Spec: each thread reloading (reload() callers, the watch thread)
  chan,       \* Spec: the events queued on the watch channel
  tx          \* Spec: the sending side of the watch channel

vars ==
  <<dir, core, call, ret, vfs, labels, vreg, fs, registry, lock, rd, th, chan, tx>>

-----------------------------------------------------------------------------
\* Bounds of the model

\* the longest directory listing (number of entries read_dir yields)
MaxEntries == 2
\* the longest versions slice given to VersionedRegistry::new
MaxLabels == 2
\* how often the watched directory changes
MaxFsChanges == 1

-----------------------------------------------------------------------------
\* Values: serde_json::Value documents given to validate. A document is an
\* object over two properties, each absent, a string or a number.

Fields == <<"email", "name">>

FieldSet == {Fields[i] : i \in 1..Len(Fields)}

Values == [FieldSet -> {"absent", "str", "num"}]

EmptyObject == [f \in FieldSet |-> "absent"]

\* Schema documents (the parsed serde_json::Value of a .json file).
\*   required: the "required" keyword, in order;
\*   typed:    the properties declared {"type": "string"};
\*   compiles: FALSE for a JSON document JSONSchema::compile rejects.
DocUserV1 == [compiles |-> TRUE, required |-> <<"email">>, typed |-> {}]

DocUserV2 == [compiles |-> TRUE, required |-> <<"email", "name">>, typed |-> {"email"}]

DocRejected == [compiles |-> FALSE, required |-> <<>>, typed |-> {}]

\* The file stems of a directory. "raw" stands for a file name that is not
\* valid UTF-8, for which to_str() is None.
Stems == {"user", "unknown", "raw"}

NonUtf8Stems == {"raw"}

\* One std::fs::DirEntry and the file behind it.
\*   ok:       FALSE when read_dir's iterator yields Err for this entry;
\*   readable: FALSE when fs::read_to_string fails;
\*   parses:   FALSE when serde_json::from_str fails.
File(stem, ext, readable, parses, doc) ==
  [ok |-> TRUE, stem |-> stem, ext |-> ext, readable |-> readable,
   parses |-> parses, doc |-> doc]

JsonFiles ==
  {File(s, "json", TRUE, TRUE, d) : s \in Stems, d \in {DocUserV1, DocUserV2, DocRejected}}
  \cup {File(s, "json", TRUE, FALSE, DocRejected) : s \in Stems}
  \cup {File(s, "json", FALSE, FALSE, DocRejected) : s \in Stems}

OtherFiles == {File("readme", "txt", TRUE, FALSE, DocRejected)}

BrokenEntries ==
  {[ok |-> FALSE, stem |-> "io", ext |-> "", readable |-> FALSE, parses |-> FALSE,
    doc |-> DocRejected]}

Entries == JsonFiles \cup OtherFiles \cup BrokenEntries

\* A directory is unreachable (read_dir fails) or lists entries in the order
\* read_dir yields them; no two entries of a directory share a file name.
Listing(es) == [reachable |-> TRUE, entries |-> es]

Unreachable == [reachable |-> FALSE, entries |-> <<>>]

SeqsUpTo(S, n) == UNION {[1..k -> S] : k \in 0..n}

DistinctFileNames(es) ==
  \A i, j \in 1..Len(es) :
    i /= j => <<es[i].stem, es[i].ext>> /= <<es[j].stem, es[j].ext>>

Directories ==
  {Unreachable} \cup
  {Listing(es) : es \in {s \in SeqsUpTo(Entries, MaxEntries) : DistinctFileNames(s)}}

-----------------------------------------------------------------------------
\* Results

\* std::io::Result<T>
IoOk(v) == [ok |-> TRUE, kind |-> "", val |-> v]

IoErr(kind, v) == [ok |-> FALSE, kind |-> kind, val |-> v]

\* ValidationResult = Result<(), Vec<String>>. A String is the sequence of the
\* pieces format! concatenates.
Ok == [ok |-> TRUE, errs |-> <<>>]

Err(errs) == [ok |-> FALSE, errs |-> errs]

\* HashMap<String, V> as a function from the keys present.
EmptyMap == [k \in {} |-> TRUE]

\* insert through entry(k).or_insert(v): the first value of a key is kept.
Insert_keep_first(m, k, v) ==
  [x \in (DOMAIN m) \cup {k} |-> IF x \in DOMAIN m THEN m[x] ELSE v]

Insert(m, k, v) == [x \in (DOMAIN m) \cup {k} |-> IF x = k THEN v ELSE m[x]]

EmptyRegistry == [schemas |-> EmptyMap, schema_sources |-> EmptyMap]

-----------------------------------------------------------------------------
\* The jsonschema crate, as far as the registry uses it.

\* JSONSchema::compile: the compiled validators of a document it accepts.
Compile(doc) == [required |-> doc.required, typed |-> doc.typed]

\* JSONSchema::is_valid
SchemaIsValid(schema, data) ==
  /\ \A f \in schema.typed : data[f] /= "num"
  /\ \A i \in 1..Len(schema.required) : data[schema.required[i]] /= "absent"

\* One ValidationError: the pieces of its Display text, and its instance_path
\* (a JSON pointer) as the pieces of its Display text.
TypeViolation(f) ==
  [text |-> <<"123", " is not of type \"string\"">>, path |-> <<"/", f>>]

RequiredViolation(f) ==
  [text |-> <<"\"", f, "\" is a required property">>, path |-> <<>>]

\* JSONSchema::iter_errors: every violation, keyword by keyword ("properties"
\* before "required", the order of the keys of the schema object).
IterErrors(schema, data) ==
  LET typedBad == SelectSeq(Fields, LAMBDA f : f \in schema.typed /\ data[f] = "num")
      missing  == SelectSeq(schema.required, LAMBDA f : data[f] = "absent")
  IN  [i \in 1..Len(typedBad) |-> TypeViolation(typedBad[i])]
      \o [i \in 1..Len(missing) |-> RequiredViolation(missing[i])]

-----------------------------------------------------------------------------
\* SchemaRegistry

\* path.file_stem().and_then(|s| s.to_str()).unwrap_or("unknown")
SchemaName(entry) == IF entry.stem \in NonUtf8Stems THEN "unknown" ELSE entry.stem

\* The loop with `break` where an entry of another extension is met.
RECURSIVE load_entries_break_on_other(_, _)
load_entries_break_on_other(self, es) ==
  IF es = <<>> THEN IoOk(self)
  ELSE
    LET entry == Head(es)
        name  == SchemaName(entry)
    IN  IF ~entry.ok THEN IoErr("Io", self)
        ELSE IF entry.ext /= "json" THEN IoOk(self)
        ELSE IF ~entry.readable THEN IoErr("Io", self)
        ELSE IF ~entry.parses THEN IoErr("InvalidData", self)
        ELSE IF entry.doc.compiles
          THEN load_entries_break_on_other(
                 [schemas |-> Insert(self.schemas, name, Compile(entry.doc)),
                  schema_sources |-> Insert(self.schema_sources, name, entry.doc)],
                 Tail(es))
          ELSE load_entries_break_on_other(self, Tail(es))

\* The loop with schema_sources.insert before the match on compile: the
\* source of a rejected schema is stored.
RECURSIVE load_entries_source_first(_, _)
load_entries_source_first(self, es) ==
  IF es = <<>> THEN IoOk(self)
  ELSE
    LET entry == Head(es)
        name  == SchemaName(entry)
    IN  IF ~entry.ok THEN IoErr("Io", self)
        ELSE IF entry.ext /= "json" THEN load_entries_source_first(self, Tail(es))
        ELSE IF ~entry.readable THEN IoErr("Io", self)
        ELSE IF ~entry.parses THEN IoErr("InvalidData", self)
        ELSE IF entry.doc.compiles
          THEN load_entries_source_first(
                 [schemas |-> Insert(self.schemas, name, Compile(entry.doc)),
                  schema_sources |-> Insert(self.schema_sources, name, entry.doc)],
                 Tail(es))
          ELSE load_entries_source_first(
                 [schemas |-> self.schemas,
                  schema_sources |-> Insert(self.schema_sources, name, entry.doc)],
                 Tail(es))

\* load_schemas, from the entry at the head of the listing on: Err on the first
\* `?` that fails, otherwise the registry with every compiled schema inserted.
RECURSIVE load_entries(_, _)
load_entries(self, es) ==
  IF es = <<>> THEN IoOk(self)
  ELSE
    LET entry == Head(es)
        name  == SchemaName(entry)
    IN  IF ~entry.ok THEN IoErr("Io", self)
        ELSE IF entry.ext /= "json" THEN load_entries(self, Tail(es))
        ELSE IF ~entry.readable THEN IoErr("Io", self)
        ELSE IF ~entry.parses THEN IoErr("InvalidData", self)
        ELSE IF entry.doc.compiles
          THEN load_entries(
                 [schemas |-> Insert(self.schemas, name, Compile(entry.doc)),
                  schema_sources |-> Insert(self.schema_sources, name, entry.doc)],
                 Tail(es))
          ELSE load_entries(self, Tail(es))

load_schemas(self, path) ==
  IF ~path.reachable THEN IoErr("Io", self) ELSE load_entries(self, path.entries)

\* SchemaRegistry::from_directory: Err carries no registry.
from_directory(path) ==
  LET loaded == load_schemas(EmptyRegistry, path)
  IN  IF loaded.ok THEN loaded ELSE IoErr(loaded.kind, EmptyRegistry)

\* format!("Schema '{}' not found", schema_name)
SchemaNotFound(schema_name) == <<"Schema '", schema_name, "' not found">>

\* format!("{} at {}", e, e.instance_path())
ErrorMessage(e) == e.text \o <<" at ">> \o e.path

\* validate with .next() in place of .collect(): only the first error is kept.
validate_first_error(self, schema_name, data) ==
  IF schema_name \notin DOMAIN self.schemas
    THEN Err(<<SchemaNotFound(schema_name)>>)
    ELSE LET schema == self.schemas[schema_name]
             errors == IterErrors(schema, data)
         IN  IF SchemaIsValid(schema, data)
               THEN Ok
               ELSE Err(<<ErrorMessage(errors[1])>>)

\* validate that reports an absent schema without its name.
validate_nameless_not_found(self, schema_name, data) ==
  IF schema_name \notin DOMAIN self.schemas
    THEN Err(<<<<"Schema not found">>>>)
    ELSE LET schema == self.schemas[schema_name]
             errors == IterErrors(schema, data)
         IN  IF SchemaIsValid(schema, data)
               THEN Ok
               ELSE Err([i \in 1..Len(errors) |-> ErrorMessage(errors[i])])

SchemaRegistry_validate(self, schema_name, data) ==
  IF schema_name \notin DOMAIN self.schemas
    THEN Err(<<SchemaNotFound(schema_name)>>)
    ELSE LET schema == self.schemas[schema_name]
             errors == IterErrors(schema, data)
         IN  IF SchemaIsValid(schema, data)
               THEN Ok
               ELSE Err([i \in 1..Len(errors) |-> ErrorMessage(errors[i])])

\* is_valid with unwrap_or(true).
is_valid_default_true(self, schema_name, data) ==
  IF schema_name \in DOMAIN self.schemas
    THEN SchemaIsValid(self.schemas[schema_name], data)
    ELSE TRUE

is_valid(self, schema_name, data) ==
  IF schema_name \in DOMAIN self.schemas
    THEN SchemaIsValid(self.schemas[schema_name], data)
    ELSE FALSE

list_schemas(self) == DOMAIN self.schemas

\* Option<&Value>
None == [some |-> FALSE, val |-> DocRejected]

Some(v) == [some |-> TRUE, val |-> v]

get_schema_source(self, name) ==
  IF name \in DOMAIN self.schema_sources THEN Some(self.schema_sources[name]) ELSE None

-----------------------------------------------------------------------------
\* VersionedRegistry

\* Option<&str>
NoVersion == [some |-> FALSE, val |-> ""]

Version(label) == [some |-> TRUE, val |-> label]

\* The version labels that have a directory under base_path, and a label that
\* has none.
Labels == {"v1", "v2"}

UnknownLabel == "v9"

\* What base_path/<label> may hold.
VersionDirs ==
  { Unreachable,
    Listing(<<File("user", "json", TRUE, TRUE, DocUserV1)>>),
    Listing(<<File("user", "json", TRUE, TRUE, DocUserV2)>>),
    Listing(<<File("user", "json", TRUE, FALSE, DocRejected)>>) }

\* base::read_dir(format!("{}/{}", base_path, version))
DirAt(base, version) == IF version \in DOMAIN base THEN base[version] ELSE Unreachable

\* Result<VersionedRegistry, std::io::Error>
VOk(registries, default_version) ==
  [called |-> TRUE, ok |-> TRUE, kind |-> "", versions |-> registries,
   default_version |-> default_version]

VErr(kind) ==
  [called |-> TRUE, ok |-> FALSE, kind |-> kind, versions |-> EmptyMap,
   default_version |-> ""]

\* The for loop of VersionedRegistry::new: a label whose load fails is skipped.
RECURSIVE load_versions(_, _, _)
load_versions(registries, base, versions) ==
  IF versions = <<>> THEN registries
  ELSE
    LET version == Head(versions)
        loaded  == from_directory(DirAt(base, version))
    IN  load_versions(
          IF loaded.ok THEN Insert(registries, version, loaded.val) ELSE registries,
          base, Tail(versions))

\* new with versions.first() as the default version.
new_default_first(base, versions) ==
  LET registries == load_versions(EmptyMap, base, versions)
  IN  IF versions = <<>>
        THEN VErr("InvalidInput")
        ELSE VOk(registries, versions[1])

\* new with from_directory(&path)? in the loop: a failed label aborts.
new_abort_on_failure(base, versions) ==
  LET registries == load_versions(EmptyMap, base, versions)
  IN  IF \E i \in 1..Len(versions) : ~from_directory(DirAt(base, versions[i])).ok
        THEN VErr("Io")
        ELSE IF versions = <<>>
          THEN VErr("InvalidInput")
          ELSE VOk(registries, versions[Len(versions)])

VersionedRegistry_new(base, versions) ==
  LET registries == load_versions(EmptyMap, base, versions)
  IN  IF versions = <<>>
        THEN VErr("InvalidInput")
        ELSE VOk(registries, versions[Len(versions)])

\* format!("Version '{}' not found", version)
VersionNotFound(version) == <<"Version '", version, "' not found">>

\* validate that falls back to the default version when the label is unknown.
validate_fallback_to_default(self, version, schema_name, data) ==
  LET v == IF version.some THEN version.val ELSE self.default_version
  IN  IF v \in DOMAIN self.versions
        THEN SchemaRegistry_validate(self.versions[v], schema_name, data)
        ELSE IF self.default_version \in DOMAIN self.versions
          THEN SchemaRegistry_validate(self.versions[self.default_version], schema_name, data)
          ELSE Err(<<VersionNotFound(v)>>)

VersionedRegistry_validate(self, version, schema_name, data) ==
  LET v == IF version.some THEN version.val ELSE self.default_version
  IN  IF v \notin DOMAIN self.versions
        THEN Err(<<VersionNotFound(v)>>)
        ELSE SchemaRegistry_validate(self.versions[v], schema_name, data)

list_versions(self) == DOMAIN self.versions

-----------------------------------------------------------------------------
\* HotReloadRegistry

\* The threads that call validate, the threads that call reload(), and the
\* thread start_watching spawns.
Readers == {"r1", "r2"}

ReloadCallers == {"m1"}

WatchThread == "watch"

Reloaders == ReloadCallers \cup {WatchThread}

\* What the directory at self.path may hold.
DirA == Listing(<<File("user", "json", TRUE, TRUE, DocUserV1)>>)

DirB ==
  Listing(<<File("user", "json", TRUE, TRUE, DocUserV2),
            File("unknown", "json", TRUE, TRUE, DocUserV1)>>)

DirC == Listing(<<File("user", "json", TRUE, TRUE, DocRejected)>>)

HotDirs == {DirA, DirB, DirC, Unreachable}

\* The names and values the validate callers use.
HotNames == {"user", "unknown"}

OnlyEmail == [f \in FieldSet |-> IF f = "email" THEN "str" ELSE "absent"]

HotValues == {OnlyEmail, EmptyObject}

\* A loaded registry together with the state of the directory it was read
\* from (ver is bookkeeping of the model, not a field of the program).
Snapshot(reg, ver) ==
  [schemas |-> reg.schemas, schema_sources |-> reg.schema_sources, ver |-> ver]

\* The RwLock<SchemaRegistry>.
Unlocked == [readers |-> {}, writer |-> "none"]

CanRead(l) == l.writer = "none"

\* write() that does not wait for the readers to leave.
CanWrite_despite_readers(l) == l.writer = "none"

CanWrite(l) == l.writer = "none" /\ l.readers = {}

\* The locals of a validate call and of a reload.
ReaderIdle ==
  [pc |-> "idle", name |-> "", data |-> EmptyObject,
   seen |-> Snapshot(EmptyRegistry, 0), seen2 |-> Snapshot(EmptyRegistry, 0),
   result |-> Ok]

ReloaderAt(pc, new, last) == [pc |-> pc, new |-> new, last |-> last]

NoSnapshot == Snapshot(EmptyRegistry, 0)

\* Where a reloader waits between two reloads.
Rest(t) == IF t = WatchThread THEN "recv" ELSE "idle"

\* The fresh load with unwrap_or_default(): a failed load installs an empty
\* registry.
reload_load_or_default(t, source) ==
  LET loaded == from_directory(source.dir)
  IN  IF loaded.ok
        THEN ReloaderAt("swap", Snapshot(loaded.val, source.ver), "none")
        ELSE ReloaderAt("swap", Snapshot(EmptyRegistry, source.ver), "none")

\* The fresh load that builds the empty registry and never calls load_schemas.
reload_load_unloaded(t, source) ==
  ReloaderAt("swap", Snapshot(EmptyRegistry, source.ver), "none")

\* reload(), line 177, and the watch thread, line 206: the fresh load. A load
\* that fails ends the reload (`?`, `if let Ok`) before the lock is touched.
reload_load(t, source) ==
  LET loaded == from_directory(source.dir)
  IN  IF loaded.ok
        THEN ReloaderAt("swap", Snapshot(loaded.val, source.ver), "none")
        ELSE ReloaderAt(Rest(t), NoSnapshot, "err")

\* SchemaRegistry::validate, lines 73-81, on the schema the lookup found.
check_schema(schema, data) ==
  LET errors == IterErrors(schema, data)
  IN  IF SchemaIsValid(schema, data)
        THEN Ok
        ELSE Err([i \in 1..Len(errors) |-> ErrorMessage(errors[i])])

-----------------------------------------------------------------------------
\* The last call and what it returned, as the properties below read them

NoCall == [op |-> "none", version |-> NoVersion, name |-> "", data |-> EmptyObject]

Call(op, version, name, data) ==
  [op |-> op, version |-> version, name |-> name, data |-> data]

NoRet == [ok |-> TRUE, errs |-> <<>>, flag |-> FALSE, names |-> {}, src |-> None]

RetResult(r) == [NoRet EXCEPT !.ok = r.ok, !.errs = r.errs]

RetFlag(b) == [NoRet EXCEPT !.flag = b]

RetNames(S) == [NoRet EXCEPT !.names = S]

RetSource(o) == [NoRet EXCEPT !.src = o]

\* The schema names callers ask for.
QueryNames == {"user", "unknown", "missing"}

NotLoaded == [called |-> FALSE, result |-> IoOk(EmptyRegistry)]

Loaded(result) == [called |-> TRUE, result |-> result]

VersionsUnbuilt ==
  [called |-> FALSE, ok |-> TRUE, kind |-> "", versions |-> EmptyMap,
   default_version |-> ""]

-----------------------------------------------------------------------------
\* SpecCore: one SchemaRegistry, loaded from a directory and then queried.

HotIdle ==
  /\ fs = [ver |-> 0, dir |-> Unreachable]
  /\ registry = NoSnapshot
  /\ lock = Unlocked
  /\ rd = [r \in Readers |-> ReaderIdle]
  /\ th = [t \in Reloaders |-> ReloaderAt("off", NoSnapshot, "none")]
  /\ chan = 0
  /\ tx = "none"

HotUnchanged == UNCHANGED <<fs, registry, lock, rd, th, chan, tx>>

CoreIdle == /\ vfs = EmptyMap /\ labels = <<>> /\ vreg = VersionsUnbuilt /\ HotIdle

CoreUnchanged == UNCHANGED <<vfs, labels, vreg>> /\ HotUnchanged

InitCore ==
  /\ dir \in Directories
  /\ core = NotLoaded
  /\ call = NoCall
  /\ ret = NoRet
  /\ CoreIdle

CoreFromDirectory ==
  /\ ~core.called
  /\ core' = Loaded(from_directory(dir))
  /\ call' = Call("from_directory", NoVersion, "", EmptyObject)
  /\ ret' = NoRet
  /\ UNCHANGED dir
  /\ CoreUnchanged

CoreReady == core.called /\ core.result.ok

CoreValidate ==
  /\ CoreReady
  /\ \E n \in QueryNames, d \in Values :
       /\ call' = Call("validate", NoVersion, n, d)
       /\ ret' = RetResult(SchemaRegistry_validate(core.result.val, n, d))
  /\ UNCHANGED <<dir, core>>
  /\ CoreUnchanged

CoreIsValid ==
  /\ CoreReady
  /\ \E n \in QueryNames, d \in Values :
       /\ call' = Call("is_valid", NoVersion, n, d)
       /\ ret' = RetFlag(is_valid(core.result.val, n, d))
  /\ UNCHANGED <<dir, core>>
  /\ CoreUnchanged

CoreListSchemas ==
  /\ CoreReady
  /\ call' = Call("list_schemas", NoVersion, "", EmptyObject)
  /\ ret' = RetNames(list_schemas(core.result.val))
  /\ UNCHANGED <<dir, core>>
  /\ CoreUnchanged

CoreGetSchemaSource ==
  /\ CoreReady
  /\ \E n \in QueryNames :
       /\ call' = Call("get_schema_source", NoVersion, n, EmptyObject)
       /\ ret' = RetSource(get_schema_source(core.result.val, n))
  /\ UNCHANGED <<dir, core>>
  /\ CoreUnchanged

NextCore ==
  \/ CoreFromDirectory
  \/ CoreValidate
  \/ CoreIsValid
  \/ CoreListSchemas
  \/ CoreGetSchemaSource

SpecCore == InitCore /\ [][NextCore]_vars

-----------------------------------------------------------------------------
\* SpecVer: one VersionedRegistry, built from a versions slice and then queried.

VerIdle == /\ dir = Unreachable /\ core = NotLoaded /\ HotIdle

VerUnchanged == UNCHANGED <<dir, core>> /\ HotUnchanged

InitVer ==
  /\ vfs \in [Labels -> VersionDirs]
  /\ labels \in SeqsUpTo(Labels, MaxLabels)
  /\ vreg = VersionsUnbuilt
  /\ call = NoCall
  /\ ret = NoRet
  /\ VerIdle

VerNew ==
  /\ ~vreg.called
  /\ vreg' = VersionedRegistry_new(vfs, labels)
  /\ call' = Call("new", NoVersion, "", EmptyObject)
  /\ ret' = NoRet
  /\ UNCHANGED <<vfs, labels>>
  /\ VerUnchanged

VerReady == vreg.called /\ vreg.ok

VersionArgs == {NoVersion} \cup {Version(l) : l \in Labels \cup {UnknownLabel}}

VerValidate ==
  /\ VerReady
  /\ \E v \in VersionArgs, n \in QueryNames, d \in Values :
       /\ call' = Call("validate", v, n, d)
       /\ ret' = RetResult(VersionedRegistry_validate(vreg, v, n, d))
  /\ UNCHANGED <<vfs, labels, vreg>>
  /\ VerUnchanged

VerListVersions ==
  /\ VerReady
  /\ call' = Call("list_versions", NoVersion, "", EmptyObject)
  /\ ret' = RetNames(list_versions(vreg))
  /\ UNCHANGED <<vfs, labels, vreg>>
  /\ VerUnchanged

NextVer ==
  \/ VerNew
  \/ VerValidate
  \/ VerListVersions

SpecVer == InitVer /\ [][NextVer]_vars

-----------------------------------------------------------------------------
\* Spec: one HotReloadRegistry, after new(path) returned Ok. Threads call
\* validate and reload(), start_watching may be called once, and the
\* directory changes under them.

HotOnly ==
  /\ dir = Unreachable
  /\ core = NotLoaded
  /\ call = NoCall
  /\ ret = NoRet
  /\ vfs = EmptyMap
  /\ labels = <<>>
  /\ vreg = VersionsUnbuilt

HotOnlyUnchanged == UNCHANGED <<dir, core, call, ret, vfs, labels, vreg>>

\* HotReloadRegistry::new: the directory loaded, the registry is in the lock.
Init ==
  /\ fs \in {[ver |-> 0, dir |-> d] : d \in {x \in HotDirs : from_directory(x).ok}}
  /\ registry = Snapshot(from_directory(fs.dir).val, 0)
  /\ lock = Unlocked
  /\ rd = [r \in Readers |-> ReaderIdle]
  /\ th = [t \in Reloaders |->
             ReloaderAt(IF t = WatchThread THEN "off" ELSE "idle", NoSnapshot, "none")]
  /\ chan = 0
  /\ tx = "none"
  /\ HotOnly

\* The directory changes; a live watcher queues one event for the change.
FsChange ==
  /\ fs.ver < MaxFsChanges
  /\ \E d \in HotDirs \ {fs.dir} : fs' = [ver |-> fs.ver + 1, dir |-> d]
  /\ chan' = IF tx = "alive" THEN chan + 1 ELSE chan
  /\ UNCHANGED <<registry, lock, rd, th, tx>>
  /\ HotOnlyUnchanged

\* validate is called: the thread is about to take the read lock.
ValidateCall(r) ==
  /\ rd[r].pc = "idle"
  /\ \E n \in HotNames, d \in HotValues :
       rd' = [rd EXCEPT ![r] = [ReaderIdle EXCEPT !.pc = "read", !.name = n, !.data = d]]
  /\ UNCHANGED <<fs, registry, lock, th, chan, tx>>
  /\ HotOnlyUnchanged

\* self.registry.read().unwrap()
ValidateRead(r) ==
  /\ rd[r].pc = "read"
  /\ CanRead(lock)
  /\ lock' = [lock EXCEPT !.readers = @ \cup {r}]
  /\ rd' = [rd EXCEPT ![r].pc = "lookup"]
  /\ UNCHANGED <<fs, registry, th, chan, tx>>
  /\ HotOnlyUnchanged

\* SchemaRegistry::validate, lines 70-71: the lookup in the registry behind the guard.
ValidateLookup(r) ==
  /\ rd[r].pc = "lookup"
  /\ rd' = [rd EXCEPT ![r] =
              IF rd[r].name \in DOMAIN registry.schemas
                THEN [@ EXCEPT !.pc = "check", !.seen = registry]
                ELSE [@ EXCEPT !.pc = "return", !.seen = registry, !.seen2 = registry,
                               !.result = Err(<<SchemaNotFound(rd[r].name)>>)]]
  /\ UNCHANGED <<fs, registry, lock, th, chan, tx>>
  /\ HotOnlyUnchanged

\* SchemaRegistry::validate, lines 73-81: the check through the reference the
\* lookup returned. A reference whose entry is gone may yield any result.
ValidateCheck(r) ==
  /\ rd[r].pc = "check"
  /\ \E res \in IF rd[r].name \in DOMAIN registry.schemas
                  THEN {check_schema(registry.schemas[rd[r].name], rd[r].data)}
                  ELSE {Ok, Err(<<>>)} :
       rd' = [rd EXCEPT ![r] = [@ EXCEPT !.pc = "return", !.seen2 = registry,
                                         !.result = res]]
  /\ UNCHANGED <<fs, registry, lock, th, chan, tx>>
  /\ HotOnlyUnchanged

\* validate returns: the read guard is dropped.
ValidateReturn(r) ==
  /\ rd[r].pc = "return"
  /\ lock' = [lock EXCEPT !.readers = @ \ {r}]
  /\ rd' = [rd EXCEPT ![r] = ReaderIdle]
  /\ UNCHANGED <<fs, registry, th, chan, tx>>
  /\ HotOnlyUnchanged

\* reload() that takes the write guard before it loads.
ReloadCall_locks_first(t) ==
  /\ t \in ReloadCallers
  /\ th[t].pc = "idle"
  /\ CanWrite(lock)
  /\ lock' = [lock EXCEPT !.writer = t]
  /\ th' = [th EXCEPT ![t] = ReloaderAt("load", NoSnapshot, "none")]
  /\ UNCHANGED <<fs, registry, rd, chan, tx>>
  /\ HotOnlyUnchanged

\* reload() is called.
ReloadCall(t) ==
  /\ t \in ReloadCallers
  /\ th[t].pc = "idle"
  /\ th' = [th EXCEPT ![t] = ReloaderAt("load", NoSnapshot, "none")]
  /\ UNCHANGED <<fs, registry, lock, rd, chan, tx>>
  /\ HotOnlyUnchanged

\* SchemaRegistry::from_directory(&self.path), by reload() or the watch thread.
ReloadLoad(t) ==
  /\ th[t].pc = "load"
  /\ th' = [th EXCEPT ![t] = reload_load(t, fs)]
  /\ UNCHANGED <<fs, registry, lock, rd, chan, tx>>
  /\ HotOnlyUnchanged

\* self.registry.write().unwrap()
ReloadWrite(t) ==
  /\ th[t].pc = "swap"
  /\ CanWrite(lock)
  /\ lock' = [lock EXCEPT !.writer = t]
  /\ th' = [th EXCEPT ![t].pc = "store"]
  /\ UNCHANGED <<fs, registry, rd, chan, tx>>
  /\ HotOnlyUnchanged

\* The new schemas added to the old ones (HashMap::extend) where the
\* assignment replaces them.
ReloadStoreSchemas_extend(t) ==
  /\ th[t].pc = "store"
  /\ registry' =
       [registry EXCEPT !.schemas =
          [n \in (DOMAIN registry.schemas) \cup (DOMAIN th[t].new.schemas) |->
             IF n \in DOMAIN th[t].new.schemas
               THEN th[t].new.schemas[n] ELSE registry.schemas[n]]]
  /\ th' = [th EXCEPT ![t].pc = "store2"]
  /\ UNCHANGED <<fs, lock, rd, chan, tx>>
  /\ HotOnlyUnchanged

\* *guard = new_registry, the first field moved in.
ReloadStoreSchemas(t) ==
  /\ th[t].pc = "store"
  /\ registry' = [registry EXCEPT !.schemas = th[t].new.schemas]
  /\ th' = [th EXCEPT ![t].pc = "store2"]
  /\ UNCHANGED <<fs, lock, rd, chan, tx>>
  /\ HotOnlyUnchanged

\* *guard = new_registry, the second field moved in; the guard is dropped at
\* the end of the statement and the reload is over.
ReloadStoreSources(t) ==
  /\ th[t].pc = "store2"
  /\ registry' = [registry EXCEPT !.schema_sources = th[t].new.schema_sources,
                                  !.ver = th[t].new.ver]
  /\ lock' = [lock EXCEPT !.writer = "none"]
  /\ th' = [th EXCEPT ![t] = ReloaderAt(Rest(t), NoSnapshot, "ok")]
  /\ UNCHANGED <<fs, rd, chan, tx>>
  /\ HotOnlyUnchanged

\* start_watching: the channel and the watcher are created, the thread spawned.
StartWatching ==
  /\ th[WatchThread].pc = "off"
  /\ tx = "none"
  /\ tx' = "alive"
  /\ th' = [th EXCEPT ![WatchThread].pc = "recv"]
  /\ UNCHANGED <<fs, registry, lock, rd, chan>>
  /\ HotOnlyUnchanged

\* start_watching returns: its local `watcher`, which owns the sender, is dropped.
WatcherDropped ==
  /\ tx = "alive"
  /\ tx' = "dropped"
  /\ UNCHANGED <<fs, registry, lock, rd, th, chan>>
  /\ HotOnlyUnchanged

\* rx.recv() returns Ok(_event).
WatchRecv ==
  /\ th[WatchThread].pc = "recv"
  /\ chan > 0
  /\ chan' = chan - 1
  /\ th' = [th EXCEPT ![WatchThread] = ReloaderAt("load", NoSnapshot, "none")]
  /\ UNCHANGED <<fs, registry, lock, rd, tx>>
  /\ HotOnlyUnchanged

\* rx.recv() returns Err: the queue is empty and the sender is gone. The
\* error is printed and the loop goes on.
WatchRecvErr ==
  /\ th[WatchThread].pc = "recv"
  /\ chan = 0
  /\ tx = "dropped"
  /\ th' = [th EXCEPT ![WatchThread] = ReloaderAt("recv", NoSnapshot, "watch_err")]
  /\ UNCHANGED <<fs, registry, lock, rd, chan, tx>>
  /\ HotOnlyUnchanged

Next ==
  \/ FsChange
  \/ \E r \in Readers : ValidateCall(r)
  \/ \E r \in Readers : ValidateRead(r)
  \/ \E r \in Readers : ValidateLookup(r)
  \/ \E r \in Readers : ValidateCheck(r)
  \/ \E r \in Readers : ValidateReturn(r)
  \/ \E t \in Reloaders : ReloadCall(t)
  \/ \E t \in Reloaders : ReloadLoad(t)
  \/ \E t \in Reloaders : ReloadWrite(t)
  \/ \E t \in Reloaders : ReloadStoreSchemas(t)
  \/ \E t \in Reloaders : ReloadStoreSources(t)
  \/ StartWatching
  \/ WatcherDropped
  \/ WatchRecv
  \/ WatchRecvErr

Spec == Init /\ [][Next]_vars

\* Spec under a scheduler that lets every thread run: a thread that can take
\* its next step takes it, and a thread that asks for the lock gets it if the
\* lock is free again and again. Calls of validate, reload() and
\* start_watching and changes of the directory are up to the environment.
Fairness ==
  /\ \A r \in Readers :
       /\ SF_vars(ValidateRead(r))
       /\ WF_vars(ValidateLookup(r) \/ ValidateCheck(r) \/ ValidateReturn(r))
  /\ \A t \in Reloaders :
       /\ WF_vars(ReloadLoad(t))
       /\ SF_vars(ReloadWrite(t))
       /\ WF_vars(ReloadStoreSchemas(t) \/ ReloadStoreSources(t))
  /\ WF_vars(WatchRecv)
  /\ WF_vars(WatcherDropped)

FairSpec == Init /\ [][Next]_vars /\ Fairness

-----------------------------------------------------------------------------
\* Properties of SchemaRegistry (SpecCore)

Range(f) == {f[x] : x \in DOMAIN f}

CompilableDocs == {DocUserV1, DocUserV2}

\* The source can be enumerated: read_dir succeeds, it yields every entry and
\* every .json file can be read.
Enumerable(d) ==
  /\ d.reachable
  /\ \A i \in 1..Len(d.entries) :
       d.entries[i].ok /\ (d.entries[i].ext = "json" => d.entries[i].readable)

\* The .json entries of a listing that parse and compile.
GoodEntries(d) ==
  {i \in 1..Len(d.entries) :
     LET e == d.entries[i] IN e.ext = "json" /\ e.parses /\ e.doc.compiles}

\* C3: for every source that can be enumerated the load succeeds; a malformed
\* or rejected entry is left out and every entry that compiles is in the result.
C3_LoadToleratesBadEntries ==
  (core.called /\ Enumerable(dir)) =>
    /\ core.result.ok
    /\ DOMAIN core.result.val.schemas =
         {SchemaName(dir.entries[i]) : i \in GoodEntries(dir)}

\* C4: for a name present in the registry, validate returns Ok iff the compiled
\* rule's check yields no violations, and otherwise Err with one message per
\* violation, in order, each ending with the violation's location.
C4_ValidateIffNoViolations ==
  (call.op = "validate" /\ CoreReady /\ call.name \in DOMAIN core.result.val.schemas) =>
    LET violations == IterErrors(core.result.val.schemas[call.name], call.data)
    IN  /\ ret.ok <=> violations = <<>>
        /\ Len(ret.errs) = Len(violations)
        /\ \A i \in 1..Len(violations) :
             ret.errs[i] = violations[i].text \o <<" at ">> \o violations[i].path

C4_Witness ==
  /\ call.op = "validate"
  /\ CoreReady
  /\ call.name \in DOMAIN core.result.val.schemas
  /\ ~ret.ok
  /\ Len(ret.errs) = 2

\* Every Err a value can draw from a compiled schema.
FailureOf(schema, data) ==
  Err([i \in 1..Len(IterErrors(schema, data)) |->
         ErrorMessage(IterErrors(schema, data)[i])])

ValidationFailures ==
  {FailureOf(Compile(pair[1]), pair[2]) :
     pair \in {q \in CompilableDocs \X Values : ~SchemaIsValid(Compile(q[1]), q[2])}}

\* C5: validate on a name with no compiled entry fails, whatever the value,
\* with one schema-not-found message that carries the name, and that result
\* is none of the results a failing value draws from a present schema.
C5_AbsentNameNotFound ==
  (call.op = "validate" /\ CoreReady /\ call.name \notin DOMAIN core.result.val.schemas) =>
    /\ ~ret.ok
    /\ Len(ret.errs) = 1
    /\ call.name \in Range(ret.errs[1])
    /\ [ok |-> ret.ok, errs |-> ret.errs] \notin ValidationFailures
    /\ \A d \in Values :
         SchemaRegistry_validate(core.result.val, call.name, d)
           = [ok |-> ret.ok, errs |-> ret.errs]

C5_Witness ==
  /\ call.op = "validate"
  /\ CoreReady
  /\ call.name = "missing"
  /\ DOMAIN core.result.val.schemas /= {}
  /\ ~ret.ok

\* C6: is_valid(name, value) is true exactly when validate(name, value) on the
\* same registry returns Ok; it is false for an absent name and for a value
\* that fails the schema.
C6_IsValidIffValidateOk ==
  (call.op = "is_valid" /\ CoreReady) =>
    /\ ret.flag <=> SchemaRegistry_validate(core.result.val, call.name, call.data).ok
    /\ call.name \notin DOMAIN core.result.val.schemas => ~ret.flag

C6_Witness ==
  /\ call.op = "is_valid"
  /\ CoreReady
  /\ call.name \notin DOMAIN core.result.val.schemas
  /\ "user" \in DOMAIN core.result.val.schemas
  /\ ~ret.flag

\* The .json entries of a listing: what the source yields.
JsonEntries(d) == {i \in 1..Len(d.entries) : d.entries[i].ext = "json"}

\* The source has no malformed and no rejected entry.
CleanSource(d) ==
  /\ Enumerable(d)
  /\ \A i \in JsonEntries(d) : d.entries[i].parses /\ d.entries[i].doc.compiles

\* C11: for a registry loaded from a source with no malformed and no rejected
\* entry, list_schemas returns exactly the names the source yields.
C11_ListIsSourceNames ==
  /\ (core.called /\ CleanSource(dir)) => core.result.ok
  /\ (call.op = "list_schemas" /\ CoreReady /\ CleanSource(dir)) =>
       ret.names = {SchemaName(dir.entries[i]) : i \in JsonEntries(dir)}

C11_Witness ==
  /\ call.op = "list_schemas"
  /\ CoreReady
  /\ CleanSource(dir)
  /\ Len(dir.entries) = 2
  /\ dir.entries[1].ext /= "json"
  /\ ret.names = {"user"}

\* The places of a name in the listing, and the last of a set of places.
Occurrences(d, name) == {i \in JsonEntries(d) : SchemaName(d.entries[i]) = name}

LastOf(S) == CHOOSE i \in S : \A j \in S : j <= i

\* C12, as claimed: a name the source yields more than once is kept with the
\* compiled rule and the source of its last occurrence in the listing.
C12_LastOccurrenceKept ==
  CoreReady =>
    \A name \in DOMAIN core.result.val.schemas :
      Cardinality(Occurrences(dir, name)) > 1 =>
        LET last == dir.entries[LastOf(Occurrences(dir, name))]
        IN  /\ core.result.val.schemas[name] = Compile(last.doc)
            /\ core.result.val.schema_sources[name] = last.doc

\* C12, amended: a name the source yields more than once is kept with the
\* compiled rule and the source of its last occurrence that compiles.
C12_LastCompiledOccurrenceKept ==
  CoreReady =>
    \A name \in QueryNames :
      Cardinality(Occurrences(dir, name)) > 1 =>
        LET good == Occurrences(dir, name) \cap GoodEntries(dir)
        IN  IF good = {}
              THEN name \notin DOMAIN core.result.val.schemas
              ELSE /\ name \in DOMAIN core.result.val.schemas
                   /\ core.result.val.schemas[name] =
                        Compile(dir.entries[LastOf(good)].doc)
                   /\ get_schema_source(core.result.val, name) =
                        Some(dir.entries[LastOf(good)].doc)

C12_Witness ==
  /\ CoreReady
  /\ Len(dir.entries) = 2
  /\ Occurrences(dir, "unknown") = {1, 2}
  /\ GoodEntries(dir) = {1, 2}
  /\ dir.entries[1].doc /= dir.entries[2].doc
  /\ core.result.val.schema_sources["unknown"] = dir.entries[2].doc

\* C18: in a registry from_directory returns, the names with a compiled rule
\* are the names with a stored source, get_schema_source is present exactly
\* for the names list_schemas holds, and a name none of whose entries
\* compiled is in neither map.
C18_SourcesMatchSchemas ==
  CoreReady =>
    /\ DOMAIN core.result.val.schema_sources = DOMAIN core.result.val.schemas
    /\ \A name \in QueryNames :
         get_schema_source(core.result.val, name).some
           <=> name \in list_schemas(core.result.val)
    /\ call.op = "get_schema_source" =>
         (ret.src.some <=> call.name \in list_schemas(core.result.val))
    /\ \A name \in QueryNames :
         Occurrences(dir, name) \cap GoodEntries(dir) = {} =>
           /\ name \notin DOMAIN core.result.val.schemas
           /\ name \notin DOMAIN core.result.val.schema_sources

C18_Witness ==
  /\ call.op = "get_schema_source"
  /\ CoreReady
  /\ Len(dir.entries) = 2
  /\ GoodEntries(dir) = {2}
  /\ JsonEntries(dir) = {1, 2}
  /\ call.name = SchemaName(dir.entries[1])
  /\ SchemaName(dir.entries[1]) /= SchemaName(dir.entries[2])
  /\ ~ret.src.some

-----------------------------------------------------------------------------
\* Properties of VersionedRegistry (SpecVer)

ResultOf(r) == [ok |-> r.ok, errs |-> r.errs]

\* The labels of the slice whose directory loads.
LoadedLabels ==
  {labels[i] : i \in {j \in 1..Len(labels) : from_directory(DirAt(vfs, labels[j])).ok}}

\* C7: every VersionedRegistry that new returns has a default version that is
\* a key of its version map.
C7_DefaultVersionIsLoaded ==
  (vreg.called /\ vreg.ok) => vreg.default_version \in DOMAIN vreg.versions

\* C8: with a non-empty slice, validate(None, ..) returns what
\* validate(Some(last label), ..) returns; new on an empty slice fails.
C8_DefaultIsLastLabel ==
  /\ (vreg.called /\ labels = <<>>) => ~vreg.ok
  /\ (vreg.called /\ labels /= <<>>) => vreg.ok
  /\ (call.op = "validate" /\ VerReady /\ ~call.version.some) =>
       ResultOf(ret) =
         VersionedRegistry_validate(vreg, Version(labels[Len(labels)]),
                                    call.name, call.data)

C8_Witness ==
  /\ call.op = "validate"
  /\ VerReady
  /\ ~call.version.some
  /\ Len(labels) = 2
  /\ labels[1] /= labels[2]
  /\ DOMAIN vreg.versions = Labels
  /\ vreg.versions[labels[1]] /= vreg.versions[labels[2]]
  /\ ~ret.ok
  /\ VersionedRegistry_validate(vreg, Version(labels[1]), call.name, call.data).ok

\* C9: a resolved label that has a registry returns what that registry's
\* validate returns; one that has none fails, for every name and value, with
\* one version-not-found message that names the label and is no
\* schema-not-found message.
C9_VersionLookup ==
  (call.op = "validate" /\ VerReady) =>
    LET v == IF call.version.some THEN call.version.val ELSE vreg.default_version
    IN  IF v \in DOMAIN vreg.versions
          THEN ResultOf(ret) =
                 SchemaRegistry_validate(vreg.versions[v], call.name, call.data)
          ELSE /\ ~ret.ok
               /\ Len(ret.errs) = 1
               /\ v \in Range(ret.errs[1])
               /\ \A n \in QueryNames \cup Labels \cup {UnknownLabel} :
                    ret.errs[1] /= SchemaNotFound(n)
               /\ \A n \in QueryNames, d \in Values :
                    VersionedRegistry_validate(vreg, call.version, n, d) = ResultOf(ret)

C9_Witness ==
  /\ call.op = "validate"
  /\ VerReady
  /\ call.version = Version(UnknownLabel)
  /\ vreg.default_version \in DOMAIN vreg.versions
  /\ ~ret.ok

\* C10: with a non-empty slice new succeeds whatever labels fail to load, and
\* list_versions is exactly the set of labels whose load succeeded.
C10_FailedLabelSkipped ==
  /\ (vreg.called /\ labels /= <<>>) =>
       vreg.ok /\ DOMAIN vreg.versions = LoadedLabels
  /\ (call.op = "list_versions" /\ VerReady) => ret.names = LoadedLabels

C10_Witness ==
  /\ call.op = "list_versions"
  /\ Len(labels) = 2
  /\ ~from_directory(DirAt(vfs, labels[1])).ok
  /\ ret.names = {labels[2]}

-----------------------------------------------------------------------------
\* Properties of HotReloadRegistry (Spec)

RegistryOf(snap) == [schemas |-> snap.schemas, schema_sources |-> snap.schema_sources]

\* The registries a load can return.
CompleteRegistries == {from_directory(d).val : d \in {x \in HotDirs : from_directory(x).ok}}

\* C1: a validate call that has made its lookup and its check made both
\* against one registry, that registry is the complete result of one load,
\* and the call returns what validate returns on that registry.
C1_ValidateSeesOneSnapshot ==
  \A r \in Readers :
    rd[r].pc = "return" =>
      /\ rd[r].seen2 = rd[r].seen
      /\ RegistryOf(rd[r].seen) \in CompleteRegistries
      /\ rd[r].result = SchemaRegistry_validate(rd[r].seen, rd[r].name, rd[r].data)

\* A validate call has made its check while a reload holds a different
\* registry and waits for the lock.
C1_Witness ==
  \E r \in Readers, t \in Reloaders :
    /\ rd[r].pc = "return"
    /\ rd[r].name \in DOMAIN rd[r].seen.schemas
    /\ th[t].pc = "swap"
    /\ RegistryOf(th[t].new) /= RegistryOf(registry)

\* C2: a reload whose fresh load fails ends there with an error, and the step
\* leaves the registry in the lock and the lock as they were, so validate
\* returns afterwards what it returned before.
C2_FailedReloadKeepsSnapshot ==
  [][\A t \in Reloaders :
       (th[t].pc = "load" /\ th'[t] /= th[t] /\ ~from_directory(fs.dir).ok) =>
         /\ th'[t].pc = Rest(t)
         /\ th'[t].last = "err"
         /\ registry' = registry
         /\ lock' = lock
         /\ \A n \in HotNames, d \in HotValues :
              SchemaRegistry_validate(registry', n, d)
                = SchemaRegistry_validate(registry, n, d)]_vars

\* reload() has returned Err and a later validate call succeeds on the
\* registry loaded before the directory became unreachable.
C2_Witness ==
  \E r \in Readers, t \in ReloadCallers :
    /\ th[t].last = "err"
    /\ ~fs.dir.reachable
    /\ rd[r].pc = "return"
    /\ rd[r].result.ok
    /\ rd[r].seen.ver = 0

\* C13: while the directory is as it was when the registry was built, the
\* registry in the lock has the names and gives the validate results of the
\* registry built from that directory, whatever number of reloads has run.
C13_ReloadIdempotent ==
  fs.ver = 0 =>
    LET before == from_directory(fs.dir).val
    IN  /\ list_schemas(registry) = list_schemas(before)
        /\ \A n \in QueryNames, d \in HotValues :
             SchemaRegistry_validate(registry, n, d)
               = SchemaRegistry_validate(before, n, d)

\* reload() has returned Ok on the unchanged directory and a validate call
\* made afterwards or meanwhile has found its schema.
C13_Witness ==
  \E r \in Readers, t \in ReloadCallers :
    /\ fs.ver = 0
    /\ th[t].last = "ok"
    /\ th[t].pc = "idle"
    /\ rd[r].pc = "return"
    /\ rd[r].name \in DOMAIN registry.schemas

\* C14: a reloader holds the write guard only while it stores the new
\* registry, never while it loads or waits; while a reloader loads and no
\* other reloader is storing, a validate call that asks for the read guard
\* gets it, and a call that has it can take its next step.
C14_NoLockWhileLoading ==
  /\ \A t \in Reloaders : lock.writer = t <=> th[t].pc \in {"store", "store2"}
  /\ \A t \in Reloaders :
       (th[t].pc = "load" /\ \A u \in Reloaders : th[u].pc \notin {"store", "store2"}) =>
         /\ CanRead(lock)
         /\ \A r \in Readers :
              /\ rd[r].pc = "read" => ENABLED ValidateRead(r)
              /\ rd[r].pc \in {"lookup", "check", "return"} =>
                   ENABLED (ValidateLookup(r) \/ ValidateCheck(r) \/ ValidateReturn(r))

\* The watch thread and reload() are both loading while one validate call
\* holds the read guard and another is about to ask for it.
C14_Witness ==
  \E r, q \in Readers :
    /\ \A t \in Reloaders : th[t].pc = "load"
    /\ rd[r].pc = "check"
    /\ r \in lock.readers
    /\ rd[q].pc = "read"

\* C17: the step that ends a successful reload leaves in the lock exactly
\* the registry that reload loaded, which is the load of the directory as
\* the reload read it; a name with no compiling entry there is not found
\* afterwards, whatever the registry held before.
C17_WholesaleReplacement ==
  [][\A t \in Reloaders :
       (th[t].pc = "store2" /\ th'[t].pc = Rest(t)) =>
         /\ RegistryOf(registry') = RegistryOf(th[t].new)
         /\ th'[t].last = "ok"
         /\ th[t].new.ver = fs.ver =>
              /\ RegistryOf(registry') = from_directory(fs.dir).val
              /\ \A n \in HotNames :
                   Occurrences(fs.dir, n) \cap GoodEntries(fs.dir) = {} =>
                     \A d \in HotValues :
                       SchemaRegistry_validate(registry', n, d)
                         = Err(<<SchemaNotFound(n)>>)]_vars

\* The schema user compiled when the registry was built and is rejected
\* now; a reload has run and a validate call on the new registry reports
\* user as not found.
C17_Witness ==
  \E r \in Readers, t \in Reloaders :
    /\ fs.dir = DirC
    /\ th[t].last = "ok"
    /\ registry.ver = fs.ver
    /\ rd[r].pc = "return"
    /\ rd[r].name = "user"
    /\ rd[r].seen.ver = fs.ver
    /\ rd[r].result = Err(<<SchemaNotFound("user")>>)

\* C19: no step replaces the registry in the lock by one loaded from an
\* older state of the directory.
C19_NewerNeverReplacedByOlder == [][registry'.ver >= registry.ver]_vars

\* C20: once rx.recv() has returned the error of the closed channel, the
\* watch thread makes no further receive.
C20_WatchStopsOnClosedChannel ==
  th[WatchThread].last = "watch_err" => ~ENABLED WatchRecvErr

\* C15: under the fair scheduler every validate call returns and every
\* reload() a thread has called returns, and a reload that waits for the
\* write lock gets it.
C15_NoOperationBlocksForever ==
  /\ \A r \in Readers : (rd[r].pc = "read") ~> (rd[r].pc = "return")
  /\ \A t \in ReloadCallers : (th[t].pc = "load") ~> (th[t].pc = "idle")
  /\ \A t \in Reloaders : (th[t].pc = "swap") ~> (lock.writer = t)

\* C16: under the fair scheduler every event in the channel is received by
\* the watch thread, which then makes one fresh load, stores the registry
\* it loaded if the load succeeded and leaves the registry in the lock alone
\* if it failed, and is back at the receive.
C16_EverySignalConsumed ==
  /\ \A k \in 1..MaxFsChanges : (chan = k) ~> (chan = k - 1)
  /\ (th[WatchThread].pc = "load") ~> (th[WatchThread].pc = "recv")
  /\ [][(th[WatchThread].pc = "load" /\ th'[WatchThread].pc = "recv") =>
          (registry' = registry /\ ~from_directory(fs.dir).ok)]_vars
  /\ [][(th[WatchThread].pc = "store2" /\ th'[WatchThread].pc = "recv") =>
          RegistryOf(registry') = RegistryOf(th[WatchThread].new)]_vars

====
